---------------------------- MODULE Spec2Model ----------------------------
(***************************************************************************)
(* Assertions about assertion results (src/assertions/testing.rs): the     *)
(* AssertionResultAssertion trait implemented for                          *)
(* Subject<CheckThatResult, (), R>, with the parts of base.rs and          *)
(* iterator.rs it calls.                                                   *)
(***************************************************************************)
EXTENDS Naturals, Sequences, FiniteSets

VARIABLES subject, last, keys, lookup, calls, verdicts

vars == <<subject, last, keys, lookup, calls, verdicts>>

(***************************************************************************)
(* Bounds of the model.                                                    *)
(***************************************************************************)
\* longest Fact sequence of the outcome under test
MaxFacts == 3
\* longest expected Fact sequence handed to facts_are / facts_are_at_least
MaxExpected == 3
\* the same two lengths, and the number of calls, on a reused Subject
MaxChainFacts == 2
MaxChainExpected == 1
MaxCalls == 2

(***************************************************************************)
(* Fact (base.rs): KeyValue { key, value }, Value { value }, Splitter.     *)
(***************************************************************************)
KeyValue(k, v) == [tag |-> "KeyValue", key |-> k, value |-> v]

Value(v) == [tag |-> "Value", value |-> v]

Splitter == [tag |-> "Splitter"]

\* The facts the inputs are built from: two facts sharing a key, a second
\* key, an unlabeled statement and the separator.
FactUniverse ==
    { Value("not same"), KeyValue("k1", "v1"), KeyValue("k1", "v2"),
      KeyValue("k2", "v1"), Splitter }

\* Keys asked of fact_value_for_key: the keys in use, and the text of the
\* unlabeled statement (which is no key).
LookupKeys == {"k1", "k2", "not same"}

\* Source expressions the entry point macros stringify.
Exprs == {"failed"}

ChainExprs == {"failed", "outcome"}

RECURSIVE SeqsUpTo(_, _)
SeqsUpTo(S, n) ==
    IF n = 0 THEN {<<>>}
    ELSE LET shorter == SeqsUpTo(S, n - 1)
         IN  shorter \cup {Append(s, x) : s \in {t \in shorter : Len(t) = n - 1}, x \in S}

None == [some |-> FALSE]

Some(v) == [some |-> TRUE, value |-> v]

(***************************************************************************)
(* Debug formatting (derive(Debug) on Fact, and Vec<&Fact>).               *)
(***************************************************************************)
DebugStr(s) == "\"" \o s \o "\""

DebugFact(f) ==
    CASE f.tag = "KeyValue" ->
            "KeyValue { key: " \o DebugStr(f.key) \o ", value: " \o DebugStr(f.value) \o " }"
      [] f.tag = "Value" -> "Value { value: " \o DebugStr(f.value) \o " }"
      [] OTHER -> "Splitter"

RECURSIVE DebugJoin(_)
DebugJoin(fs) ==
    IF fs = <<>> THEN ""
    ELSE IF Len(fs) = 1 THEN DebugFact(fs[1])
    ELSE DebugFact(fs[1]) \o ", " \o DebugJoin(Tail(fs))

DebugVec(fs) == "[" \o DebugJoin(fs) \o "]"

Digit(d) == <<"0", "1", "2", "3", "4", "5", "6", "7", "8", "9">>[d + 1]

RECURSIVE DisplayNat(_)
DisplayNat(n) == IF n < 10 THEN Digit(n) ELSE DisplayNat(n \div 10) \o Digit(n % 10)

(***************************************************************************)
(* What a call hands back to its caller.                                   *)
(***************************************************************************)
\* a panic raised by expect / expect_err: a usage error
UsagePanic(msg, detail) == [kind |-> "panic", via |-> "usage", msg |-> msg, detail |-> detail]

\* a derived Subject
Derived(s) == [kind |-> "subject", subject |-> s]

(***************************************************************************)
(* Subject and ReturnStrategy (base.rs).                                   *)
(***************************************************************************)
\* Subject::new as the assert_that! / check_that! macros call it
NewSubject(actual, expr, strategy) ==
    [actual |-> actual, expr |-> expr, description |-> None, strategy |-> strategy]

description_or_expr(self) ==
    IF self.description.some THEN self.description.value ELSE self.expr

new_owned_subject(self, actual, description) ==
    [actual |-> actual, expr |-> self.expr, description |-> description,
     strategy |-> self.strategy]

\* AssertionResult::new: the facts a fresh result starts with
new_result(self) ==
    IF self.description.some
    THEN <<KeyValue("value of", self.description.value)>>
    ELSE <<>>

\* ReturnStrategy<R>::do_ok
do_ok(self, facts) ==
    IF self.strategy = "Panic"
    THEN [kind |-> "unit", via |-> "strategy"]
    ELSE [kind |-> "Ok", via |-> "strategy"]

\* ReturnStrategy<R>::do_fail
do_fail(self, facts) ==
    IF self.strategy = "Panic"
    THEN [kind |-> "panic", via |-> "strategy", facts |-> facts]
    ELSE [kind |-> "Err", via |-> "strategy", facts |-> facts]

(***************************************************************************)
(* IteratorAssertion (iterator.rs).                                        *)
(***************************************************************************)
\* the first index of x in s, 0 when there is none
RECURSIVE Position(_, _, _)
Position(s, x, i) ==
    IF i > Len(s) THEN 0
    ELSE IF s[i] = x THEN i
    ELSE Position(s, x, i + 1)

RemoveAt(s, i) == SubSeq(s, 1, i - 1) \o SubSeq(s, i + 1, Len(s))

\* the elements of left no element of right accounts for, in left's order
RECURSIVE Unmatched(_, _)
Unmatched(left, right) ==
    IF left = <<>> THEN <<>>
    ELSE LET p == Position(right, left[1], 1)
         IN  IF p = 0
             THEN <<left[1]>> \o Unmatched(Tail(left), right)
             ELSE Unmatched(Tail(left), RemoveAt(right, p))

\* both iterators advanced together to their ends
RECURSIVE SameInOrder(_, _)
SameInOrder(actual, expected) ==
    IF actual = <<>> \/ expected = <<>> THEN actual = <<>> /\ expected = <<>>
    ELSE actual[1] = expected[1] /\ SameInOrder(Tail(actual), Tail(expected))

\* the expected iterator advanced on each match while the actual one runs
RECURSIVE AllInOrder(_, _)
AllInOrder(actual, expected) ==
    IF expected = <<>> THEN TRUE
    ELSE IF actual = <<>> THEN FALSE
    ELSE IF actual[1] = expected[1] THEN AllInOrder(Tail(actual), Tail(expected))
    ELSE AllInOrder(Tail(actual), expected)

ItemDiffFacts(actual, expected) ==
    LET missing == Unmatched(expected, actual)
        extra == Unmatched(actual, expected)
    IN  (IF missing = <<>> THEN <<>>
         ELSE <<KeyValue("missing (" \o DisplayNat(Len(missing)) \o ")", DebugVec(missing))>>)
        \o (IF extra = <<>> THEN <<>>
            ELSE <<KeyValue("unexpected (" \o DisplayNat(Len(extra)) \o ")", DebugVec(extra))>>)
        \o (IF missing = <<>> /\ extra = <<>>
            THEN <<Value("contents match, but order was wrong")>>
            ELSE <<>>)
        \o <<Splitter, KeyValue("expected", DebugVec(expected)),
             KeyValue("actual", DebugVec(actual))>>

contains_exactly_in_order(self, expected) ==
    IF SameInOrder(self.actual, expected)
    THEN do_ok(self, new_result(self))
    ELSE do_fail(self, new_result(self) \o ItemDiffFacts(self.actual, expected))

MissingFacts(actual, expected) ==
    LET missing == Unmatched(expected, actual)
    IN  (IF missing = <<>>
         THEN <<Value("required elements were all found, but order was wrong")>>
         ELSE <<KeyValue("missing (" \o DisplayNat(Len(missing)) \o ")", DebugVec(missing))>>)
        \o <<Splitter, KeyValue("expected", DebugVec(expected)),
             KeyValue("actual", DebugVec(actual))>>

contains_at_least_in_order(self, expected) ==
    IF AllInOrder(self.actual, expected)
    THEN do_ok(self, new_result(self))
    ELSE do_fail(self, new_result(self) \o MissingFacts(self.actual, expected))

(***************************************************************************)
(* AssertionResultAssertion for Subject<CheckThatResult, (), R>            *)
(* (assertions/testing.rs).  A CheckThatResult is Ok(()) or                *)
(* Err(AssertionResult).                                                   *)
(***************************************************************************)
OkResult == [ok |-> TRUE]

ErrResult(facts) == [ok |-> FALSE, err |-> [facts |-> facts]]

\* expect_err on Ok(()) returns nothing: a mutant that hands back an empty result
get_assertion_result_or_default(self) ==
    IF self.actual.ok
    THEN [kind |-> "ref", result |-> [facts |-> <<>>]]
    ELSE [kind |-> "ref", result |-> self.actual.err]

get_assertion_result(self) ==
    IF self.actual.ok
    THEN UsagePanic("Because this is assertion for error message.", "()")
    ELSE [kind |-> "ref", result |-> self.actual.err]

\* facts_are delegating to the containment assertion
facts_are_as_at_least(self, expected) ==
    LET r == get_assertion_result(self)
    IN  IF r.kind = "panic" THEN r
        ELSE contains_at_least_in_order(
                 new_owned_subject(self, r.result.facts,
                                   Some(description_or_expr(self) \o ".facts()")),
                 expected)

\* facts_are whose derived Subject is bound to the panicking strategy
facts_are_panicking(self, expected) ==
    LET r == get_assertion_result(self)
    IN  IF r.kind = "panic" THEN r
        ELSE contains_exactly_in_order(
                 [new_owned_subject(self, r.result.facts,
                                    Some(description_or_expr(self) \o ".facts()"))
                  EXCEPT !.strategy = "Panic"],
                 expected)

\* facts_are labelling its derived Subject as fact_keys does
facts_are_mislabelled(self, expected) ==
    LET r == get_assertion_result(self)
    IN  IF r.kind = "panic" THEN r
        ELSE contains_exactly_in_order(
                 new_owned_subject(self, r.result.facts,
                                   Some(description_or_expr(self) \o ".keys()")),
                 expected)

facts_are(self, expected) ==
    LET r == get_assertion_result(self)
    IN  IF r.kind = "panic" THEN r
        ELSE contains_exactly_in_order(
                 new_owned_subject(self, r.result.facts,
                                   Some(description_or_expr(self) \o ".facts()")),
                 expected)

\* facts_are_at_least delegating to the exact assertion
facts_are_at_least_as_exact(self, facts) ==
    LET r == get_assertion_result(self)
    IN  IF r.kind = "panic" THEN r
        ELSE contains_exactly_in_order(
                 new_owned_subject(self, r.result.facts,
                                   Some(description_or_expr(self) \o ".facts()")),
                 facts)

\* facts_are_at_least handing back the derived Subject, its assertion never called
facts_are_at_least_unasserted(self, facts) ==
    LET r == get_assertion_result(self)
    IN  IF r.kind = "panic" THEN r
        ELSE Derived(new_owned_subject(self, r.result.facts,
                         Some(description_or_expr(self) \o ".facts()")))

facts_are_at_least(self, facts) ==
    LET r == get_assertion_result(self)
    IN  IF r.kind = "panic" THEN r
        ELSE contains_at_least_in_order(
                 new_owned_subject(self, r.result.facts,
                                   Some(description_or_expr(self) \o ".facts()")),
                 facts)

\* the flat_map of fact_value_for_key: the values of the KeyValue facts
\* whose key is key_str, in order
RECURSIVE ValuesForKey(_, _)
ValuesForKey(facts, key_str) ==
    IF facts = <<>> THEN <<>>
    ELSE (IF facts[1].tag = "KeyValue" /\ facts[1].key = key_str
          THEN <<facts[1].value>>
          ELSE <<>>) \o ValuesForKey(Tail(facts), key_str)

\* the message of the expect in fact_value_for_key, without the back quotes
\* around the key (a TLA+ string cannot hold one)
KeyNotFound(key_str) == "key " \o key_str \o " not found in assertion result."

\* Iterator::next
IterNext(s) == IF s = <<>> THEN None ELSE Some(s[1])

\* Iterator::last in place of next
IterLast(s) == IF s = <<>> THEN None ELSE Some(s[Len(s)])

\* fact_value_for_key taking the last matching fact
fact_value_for_key_last(self, key_str) ==
    LET r == get_assertion_result(self)
    IN  IF r.kind = "panic" THEN r
        ELSE LET value == IterLast(ValuesForKey(r.result.facts, key_str))
             IN  IF ~value.some
                 THEN UsagePanic(KeyNotFound(key_str),
                                 r.result.facts)
                 ELSE Derived(new_owned_subject(self, value.value,
                          Some(description_or_expr(self) \o ".[key=" \o key_str \o "]")))

\* fact_value_for_key with unwrap_or_default in place of expect
fact_value_for_key_or_default(self, key_str) ==
    LET r == get_assertion_result(self)
    IN  IF r.kind = "panic" THEN r
        ELSE LET value == IterNext(ValuesForKey(r.result.facts, key_str))
             IN  Derived(new_owned_subject(self,
                          IF value.some THEN value.value ELSE "",
                          Some(description_or_expr(self) \o ".[key=" \o key_str \o "]")))

fact_value_for_key(self, key_str) ==
    LET r == get_assertion_result(self)
    IN  IF r.kind = "panic" THEN r
        ELSE LET value == IterNext(ValuesForKey(r.result.facts, key_str))
             IN  IF ~value.some
                 THEN UsagePanic(KeyNotFound(key_str),
                                 r.result.facts)
                 ELSE Derived(new_owned_subject(self, value.value,
                          Some(description_or_expr(self) \o ".[key=" \o key_str \o "]")))

\* the flat_map and collect of fact_keys
RECURSIVE CollectKeys(_)
CollectKeys(facts) ==
    IF facts = <<>> THEN {}
    ELSE (IF facts[1].tag = "KeyValue" THEN {facts[1].key} ELSE {})
         \cup CollectKeys(Tail(facts))

\* the match of fact_keys with the Value arm yielding its text
RECURSIVE CollectKeysAndValues(_)
CollectKeysAndValues(facts) ==
    IF facts = <<>> THEN {}
    ELSE (IF facts[1].tag = "KeyValue" THEN {facts[1].key}
          ELSE IF facts[1].tag = "Value" THEN {facts[1].value}
          ELSE {})
         \cup CollectKeysAndValues(Tail(facts))

\* fact_keys keeping the first key only (next in place of collect)
fact_keys_first(self) ==
    LET r == get_assertion_result(self)
    IN  IF r.kind = "panic" THEN r
        ELSE Derived(new_owned_subject(self,
                         IF \E i \in DOMAIN r.result.facts : r.result.facts[i].tag = "KeyValue"
                         THEN {r.result.facts[
                                  CHOOSE i \in DOMAIN r.result.facts :
                                      /\ r.result.facts[i].tag = "KeyValue"
                                      /\ \A j \in 1..(i - 1) : r.result.facts[j].tag # "KeyValue"].key}
                         ELSE {},
                         Some(description_or_expr(self) \o ".keys()")))

\* fact_keys collecting the text of Value facts too
fact_keys_with_values(self) ==
    LET r == get_assertion_result(self)
    IN  IF r.kind = "panic" THEN r
        ELSE Derived(new_owned_subject(self, CollectKeysAndValues(r.result.facts),
                         Some(description_or_expr(self) \o ".keys()")))

fact_keys(self) ==
    LET r == get_assertion_result(self)
    IN  IF r.kind = "panic" THEN r
        ELSE Derived(new_owned_subject(self, CollectKeys(r.result.facts),
                         Some(description_or_expr(self) \o ".keys()")))

(***************************************************************************)
(* The calls a test makes on one Subject.  last is the latest call and     *)
(* what it handed back; keys is the Subject the latest fact_keys derived   *)
(* and lookup the latest fact_value_for_key call, both held by the test;   *)
(* calls and verdicts count the calls made and the verdicts dispatched     *)
(* through the ReturnStrategy.                                             *)
(***************************************************************************)
Strategies == {"Panic", "Value"}

Outcomes(n) == {OkResult} \cup {ErrResult(f) : f \in SeqsUpTo(FactUniverse, n)}

NoCall == [op |-> "none"]

\* a panic unwinds the test: nothing is called after it
Running == IF last.op = "none" THEN TRUE ELSE last.result.kind # "panic"

Dispatched(r) == IF r.kind = "subject" THEN 0 ELSE IF r.via = "strategy" THEN 1 ELSE 0

Record(call) ==
    /\ last' = call
    /\ calls' = calls + 1
    /\ verdicts' = verdicts + Dispatched(call.result)
    /\ keys' = IF call.op = "fact_keys" /\ call.result.kind = "subject"
               THEN Some(call.result.subject)
               ELSE keys
    /\ lookup' = IF call.op = "fact_value_for_key" THEN Some(call) ELSE lookup
    /\ UNCHANGED subject

FactsAre(maxExpected, maxCalls) ==
    /\ Running
    /\ calls < maxCalls
    /\ \E expected \in SeqsUpTo(FactUniverse, maxExpected) :
           Record([op |-> "facts_are", expected |-> expected,
                   result |-> facts_are(subject, expected)])

FactsAreAtLeast(maxExpected, maxCalls) ==
    /\ Running
    /\ calls < maxCalls
    /\ \E facts \in SeqsUpTo(FactUniverse, maxExpected) :
           Record([op |-> "facts_are_at_least", expected |-> facts,
                   result |-> facts_are_at_least(subject, facts)])

FactValueForKey(maxCalls) ==
    /\ Running
    /\ calls < maxCalls
    /\ \E key \in LookupKeys :
           Record([op |-> "fact_value_for_key", key |-> key,
                   result |-> fact_value_for_key(subject, key)])

FactKeys(maxCalls) ==
    /\ Running
    /\ calls < maxCalls
    /\ Record([op |-> "fact_keys", result |-> fact_keys(subject)])

Fresh ==
    /\ last = NoCall
    /\ keys = None
    /\ lookup = None
    /\ calls = 0
    /\ verdicts = 0

\* One call on a fresh Subject: the four operations as functions of the
\* outcome under test and their argument.
Init ==
    /\ subject \in {NewSubject(o, e, s) :
                        o \in Outcomes(MaxFacts), e \in Exprs, s \in Strategies}
    /\ Fresh

Next ==
    \/ FactsAre(MaxExpected, 1)
    \/ FactsAreAtLeast(MaxExpected, 1)
    \/ FactValueForKey(1)
    \/ FactKeys(1)

Spec == Init /\ [][Next]_vars

\* Several calls on the same Subject, which every operation only borrows.
InitChain ==
    /\ subject \in {NewSubject(o, e, s) :
                        o \in Outcomes(MaxChainFacts), e \in ChainExprs, s \in Strategies}
    /\ Fresh

NextChain ==
    \/ FactsAre(MaxChainExpected, MaxCalls)
    \/ FactsAreAtLeast(MaxChainExpected, MaxCalls)
    \/ FactValueForKey(MaxCalls)
    \/ FactKeys(MaxCalls)

SpecChain == InitChain /\ [][NextChain]_vars

(***************************************************************************)
(* The properties, stated from the outcome under test and the call alone.  *)
(***************************************************************************)
Failed == ~subject.actual.ok

\* the Fact sequence F of the failed outcome under test
F == subject.actual.err.facts

TerminalOps == {"facts_are", "facts_are_at_least"}

DerivationOps == {"fact_value_for_key", "fact_keys"}

\* a verdict of success, under either strategy
Passed(r) == r.kind \in {"unit", "Ok"}

\* a verdict of failure: the failure value, or the panic the strategy raises
Rejected(r) == r.kind = "Err" \/ (r.kind = "panic" /\ r.via = "strategy")

UsageError(r) == r.kind = "panic" /\ r.via = "usage"

RECURSIVE PickFrom(_, _, _)
PickFrom(s, idx, i) ==
    IF i > Len(s) THEN <<>>
    ELSE (IF i \in idx THEN <<s[i]>> ELSE <<>>) \o PickFrom(s, idx, i + 1)

\* p is what is left of s after dropping some of its elements
IsSubsequence(p, s) == \E idx \in SUBSET (1..Len(s)) : PickFrom(s, idx, 1) = p

Occurrences(s, x) == Cardinality({i \in DOMAIN s : s[i] = x})

RECURSIVE SumOver(_, _, _)
SumOver(S, a, b) ==
    IF S = {} THEN 0
    ELSE LET x == CHOOSE y \in S : TRUE
             d == IF Occurrences(a, x) > Occurrences(b, x)
                  THEN Occurrences(a, x) - Occurrences(b, x)
                  ELSE 0
         IN  d + SumOver(S \ {x}, a, b)

\* how many elements of a no element of b accounts for
Surplus(a, b) == SumOver({a[i] : i \in DOMAIN a}, a, b)

KeyIndexes(k) == {i \in DOMAIN F : F[i].tag = "KeyValue" /\ F[i].key = k}

Min(S) == CHOOSE i \in S : \A j \in S : i <= j

\* C1: facts_are(expected) on a failed outcome with Fact sequence F passes
\* when expected = F and is rejected for every other expected sequence
\* (another length, another order, another element).
C1_FactsAreExact ==
    (last.op = "facts_are" /\ Failed) =>
        /\ last.expected = F => Passed(last.result)
        /\ last.expected # F => Rejected(last.result)

\* the same facts in another order are rejected
C1_Witness ==
    /\ last.op = "facts_are"
    /\ Failed
    /\ Len(F) = 3
    /\ Len(last.expected) = 3
    /\ last.expected # F
    /\ \A x \in FactUniverse : Occurrences(F, x) = Occurrences(last.expected, x)
    /\ Rejected(last.result)

\* C2: facts_are_at_least(P) on a failed outcome with Fact sequence F passes
\* when P is an in-order subsequence of F and is rejected when it is not (an
\* element of P absent from F, or out of order).
C2_FactsAreAtLeast ==
    (last.op = "facts_are_at_least" /\ Failed) =>
        /\ IsSubsequence(last.expected, F) => Passed(last.result)
        /\ ~IsSubsequence(last.expected, F) => Rejected(last.result)

\* P is the first and the third fact of F: neither a prefix nor contiguous
C2_Witness ==
    /\ last.op = "facts_are_at_least"
    /\ Failed
    /\ Len(F) = 3
    /\ F[1] # F[2]
    /\ F[2] # F[3]
    /\ last.expected = <<F[1], F[3]>>
    /\ Passed(last.result)

\* C3: when some KeyValue fact of F has key k, fact_value_for_key(k) derives
\* a Subject over the value of the lowest-index KeyValue fact with key k.
C3_FirstValueForKey ==
    (last.op = "fact_value_for_key" /\ Failed /\ KeyIndexes(last.key) # {}) =>
        /\ last.result.kind = "subject"
        /\ last.result.subject.actual = F[Min(KeyIndexes(last.key))].value

\* two facts share the key with different values, behind a fact that is skipped
C3_Witness ==
    /\ last.op = "fact_value_for_key"
    /\ Failed
    /\ Cardinality(KeyIndexes(last.key)) = 2
    /\ 1 \notin KeyIndexes(last.key)
    /\ Cardinality({F[i].value : i \in KeyIndexes(last.key)}) = 2
    /\ last.result.kind = "subject"

\* C4: fact_keys() derives a Subject over exactly the set of keys of the
\* KeyValue facts of F; no text of a Value fact is in it, and it is empty
\* when F has no KeyValue fact.
C4_FactKeys ==
    (last.op = "fact_keys" /\ Failed) =>
        /\ last.result.kind = "subject"
        /\ last.result.subject.actual =
               {F[i].key : i \in {j \in DOMAIN F : F[j].tag = "KeyValue"}}
        /\ \A i \in DOMAIN F :
               F[i].tag = "Value" => F[i].value \notin last.result.subject.actual
        /\ (\A i \in DOMAIN F : F[i].tag # "KeyValue") => last.result.subject.actual = {}

\* a repeated key beside a Value fact: the set holds the key once
C4_Witness ==
    /\ last.op = "fact_keys"
    /\ Failed
    /\ \E i, j, k \in DOMAIN F :
           /\ i # j
           /\ F[i].tag = "KeyValue"
           /\ F[j].tag = "KeyValue"
           /\ F[i].key = F[j].key
           /\ F[k].tag = "Value"
    /\ last.result.kind = "subject"
    /\ Cardinality(last.result.subject.actual) = 1

\* C5: when no KeyValue fact of F has key k, fact_value_for_key(k) panics
\* with the usage error naming k, under either strategy: no Subject is
\* derived and no verdict goes through the ReturnStrategy.
C5_MissingKeyAborts ==
    (last.op = "fact_value_for_key" /\ Failed /\ KeyIndexes(last.key) = {}) =>
        /\ UsageError(last.result)
        /\ last.result.msg = "key " \o last.key \o " not found in assertion result."
        /\ verdicts = 0

\* under the value-returning strategy, for the text of a Value fact of F
C5_Witness ==
    /\ last.op = "fact_value_for_key"
    /\ Failed
    /\ subject.strategy = "Value"
    /\ \E i \in DOMAIN F : F[i].tag = "Value" /\ F[i].value = last.key
    /\ \E i \in DOMAIN F : F[i].tag = "KeyValue"
    /\ UsageError(last.result)

\* C6: on a successful outcome (Ok) each of the four operations panics with
\* the usage error "Because this is assertion for error message.", under
\* either strategy: nothing is compared or derived and no verdict is given.
C6_OkOutcomeAborts ==
    (last.op # "none" /\ subject.actual.ok) =>
        /\ UsageError(last.result)
        /\ last.result.msg = "Because this is assertion for error message."
        /\ verdicts = 0

C6_Witness ==
    /\ last.op = "facts_are_at_least"
    /\ last.expected = <<>>
    /\ subject.actual.ok
    /\ subject.strategy = "Value"
    /\ UsageError(last.result)

\* C7: the strategy of the Subject under test decides every result: bound
\* to the value-returning strategy a mismatching facts_are or
\* facts_are_at_least returns the failure value with its facts and a match
\* returns Ok; bound to the panicking strategy a mismatch panics and a match
\* returns unit; a derived Subject is bound to the same strategy.
C7_StrategyPropagates ==
    (last.op # "none" /\ Failed) =>
        LET matches == IF last.op = "facts_are" THEN last.expected = F
                       ELSE IsSubsequence(last.expected, F)
        IN  /\ last.op \in TerminalOps =>
                   last.result.kind =
                       IF subject.strategy = "Value"
                       THEN (IF matches THEN "Ok" ELSE "Err")
                       ELSE (IF matches THEN "unit" ELSE "panic")
            /\ (last.op \in TerminalOps /\ last.result.kind \in {"Err", "panic"}) =>
                   /\ last.result.via = "strategy"
                   /\ Len(last.result.facts) >= 5
                   /\ last.result.facts[Len(last.result.facts)]
                          = KeyValue("actual", DebugVec(F))
            /\ (last.op \in DerivationOps /\ last.result.kind = "subject") =>
                   last.result.subject.strategy = subject.strategy

\* a mismatching facts_are handed back as a value
C7_Witness ==
    /\ last.op = "facts_are"
    /\ Failed
    /\ subject.strategy = "Value"
    /\ F # <<>>
    /\ last.expected # F
    /\ last.result.kind = "Err"

\* C8: a facts_are rejected under the value-returning strategy hands back
\* structured facts: the first is KeyValue("value of", "<label>.facts()"),
\* the facts of F that expected does not account for are counted in the key
\* "unexpected (n)", and the last three are Splitter, expected and actual;
\* for the outcome labelled failed with F = [Value("not same")] and
\* expected = [] they are exactly the five facts of the test facts_are.
C8_StructuredFailure ==
    (last.op = "facts_are" /\ Failed /\ subject.strategy = "Value" /\ last.expected # F) =>
        LET facts == last.result.facts
            n == Len(facts)
            extra == Surplus(F, last.expected)
            counted(k) == \E i \in DOMAIN facts :
                              /\ facts[i].tag = "KeyValue"
                              /\ facts[i].key = "unexpected (" \o DisplayNat(k) \o ")"
        IN  /\ last.result.kind = "Err"
            /\ facts[1] = KeyValue("value of", subject.expr \o ".facts()")
            /\ \A k \in 1..Len(F) : counted(k) <=> k = extra
            /\ facts[n - 2] = Splitter
            /\ facts[n - 1] = KeyValue("expected", DebugVec(last.expected))
            /\ facts[n] = KeyValue("actual", DebugVec(F))
            /\ (subject.expr = "failed" /\ F = <<Value("not same")>> /\ last.expected = <<>>) =>
                   facts = << KeyValue("value of", "failed.facts()"),
                              KeyValue("unexpected (1)", "[Value { value: \"not same\" }]"),
                              Splitter,
                              KeyValue("expected", "[]"),
                              KeyValue("actual", "[Value { value: \"not same\" }]") >>

\* the scenario of the test facts_are
C8_Witness ==
    /\ last.op = "facts_are"
    /\ subject.strategy = "Value"
    /\ subject.expr = "failed"
    /\ Failed
    /\ F = <<Value("not same")>>
    /\ last.expected = <<>>
    /\ last.result.kind = "Err"
    /\ Len(last.result.facts) = 5

C10_LookupIffKey ==
    (Failed /\ keys.some /\ lookup.some) =>
        (lookup.value.result.kind = "subject" <=> lookup.value.key \in keys.value.actual)

\* fact_keys, then a lookup of a key outside its non-empty set, which panics
C10_Witness ==
    /\ Failed
    /\ keys.some
    /\ lookup.some
    /\ keys.value.actual # {}
    /\ lookup.value.key \notin keys.value.actual
    /\ UsageError(lookup.value.result)
    /\ last.op = "fact_value_for_key"

=============================================================================
